---- MODULE Spec2Model ----
(***************************************************************************)
(* video_analyzer: AudioProcessor (audio_processor.py) and WhisperClient   *)
(* (clients/whisper_client.py).                                            *)
(*                                                                         *)
(* Python values are modelled as follows.                                  *)
(*   - a JSON scalar is a record [t, s, n]: t its type ("str", "num",      *)
(*     "null"), s the characters of a string, n the value of a number;     *)
(*     Python's None is the "null" scalar;                                 *)
(*   - a dict is a record with a field keys, the set of keys it holds, and *)
(*     one field per possible key; dict.get reads keys first (Get);        *)
(*   - a value that is not a dict where the code expects one has           *)
(*     isDict = FALSE, and calling .get on it raises AttributeError;       *)
(*   - floats are integers (0 for 0.0, 1 for 1.0);                         *)
(*   - an exception is the field exc of a call's outcome ("none" when the  *)
(*     call returned).                                                     *)
(***************************************************************************)
EXTENDS Integers, Sequences, FiniteSets, TLC

VARIABLES
    ffmpeg,     \* environment: state of the external decode tool
    health,     \* environment: what GET {base}/health answered at construction
    client,     \* outcome of WhisperClient.__init__
    proc,       \* outcome of AudioProcessor.__init__ (language, has_ffmpeg)
    wc,         \* last WhisperClient.transcribe call: its input and outcome
    tr,         \* last AudioProcessor.transcribe call: its outcome
    jobs,       \* extract_audio calls: arguments, position, outcome
    files       \* file system: what outputDir/audio.wav holds, per directory

vars == <<ffmpeg, health, client, proc, wc, tr, jobs, files>>

-----------------------------------------------------------------------------
(* Bounds of the model *)

\* longest "segments" list of a raw response built from CoreSegments
MaxSegs == 2
\* longest "words" list of a raw segment
MaxWords == 1
\* number of extract_audio calls that may be in progress together
NumJobs == 2

-----------------------------------------------------------------------------
(* JSON scalars and Python truthiness *)

JStr(chars) == [t |-> "str", s |-> chars, n |-> 0]
JNum(k) == [t |-> "num", s |-> <<>>, n |-> k]
JNull == [t |-> "null", s |-> <<>>, n |-> 0]

IsStr(v) == v.t = "str"

\* bool(v) of a scalar: None, "" and 0 are falsy
Truthy(v) ==
    CASE v.t = "str" -> v.s # <<>>
      [] v.t = "num" -> v.n # 0
      [] OTHER -> FALSE

IsSpace(c) == c \in {" ", "\n"}

RECURSIVE LStrip(_)
LStrip(chars) ==
    IF chars # <<>> /\ IsSpace(Head(chars)) THEN LStrip(Tail(chars)) ELSE chars

RECURSIVE RStrip(_)
RStrip(chars) ==
    IF chars # <<>> /\ IsSpace(chars[Len(chars)])
    THEN RStrip(SubSeq(chars, 1, Len(chars) - 1))
    ELSE chars

\* mutant: the text is tested without being stripped
NoStrip(chars) == chars

\* str.strip()
Strip(chars) == RStrip(LStrip(chars))

\* dict.get(key, default)
Get(d, key, default) == IF key \in d.keys THEN d[key] ELSE default

\* the defaults the normalizer passes to dict.get
DefaultTime == 0
DefaultProbability == 1
EmptyStr == JStr(<<>>)
Unknown == JStr(<<"u", "n", "k", "n", "o", "w", "n">>)

-----------------------------------------------------------------------------
(* Raw responses of the transcription service: the inputs of the model *)

SeqsUpTo(S, n) == UNION {[1..k -> S] : k \in 0..n}

WordKeys == {"word", "start", "end", "probability"}

\* a word object of the response holding the keys ks
WordDict(ks) ==
    [isDict |-> TRUE, keys |-> ks,
     word |-> IF "word" \in ks THEN JStr(<<"w">>) ELSE JNull,
     start |-> IF "start" \in ks THEN JNum(2) ELSE JNull,
     end |-> IF "end" \in ks THEN JNum(3) ELSE JNull,
     probability |-> IF "probability" \in ks THEN JNum(0) ELSE JNull]

\* an entry of "words" that is not an object (a string, a number, null)
BadWord ==
    [isDict |-> FALSE, keys |-> {}, word |-> JNull, start |-> JNull,
     end |-> JNull, probability |-> JNull]

WordKeySets ==
    {{}, {"word"}, {"word", "start", "end"}, {"start", "end", "probability"}, WordKeys}

RawWords == {WordDict(ks) : ks \in WordKeySets} \cup {BadWord}

WordLists == SeqsUpTo(RawWords, MaxWords)

\* a segment object of the response holding the keys ks, its "words" being ws
SegDict(ks, ws) ==
    [isDict |-> TRUE, keys |-> ks,
     text |-> IF "text" \in ks THEN JStr(<<"s">>) ELSE JNull,
     start |-> IF "start" \in ks THEN JNum(4) ELSE JNull,
     end |-> IF "end" \in ks THEN JNum(5) ELSE JNull,
     words |-> IF "words" \in ks THEN ws ELSE <<>>]

\* an entry of "segments" that is not an object
BadSegment ==
    [isDict |-> FALSE, keys |-> {}, text |-> JNull, start |-> JNull,
     end |-> JNull, words |-> <<>>]

SegKeySets == {{}, {"text"}, {"start", "end"}, {"text", "start", "end"}}

RawSegments ==
    {SegDict(ks, <<>>) : ks \in SegKeySets}
    \cup {SegDict(ks \cup {"words"}, ws) : ks \in SegKeySets, ws \in WordLists}
    \cup {BadSegment}

\* the segments that the longer "segments" lists are built from
CoreSegments ==
    {SegDict({"text", "start", "end", "words"}, <<WordDict(WordKeys)>>),
     SegDict({}, <<>>),
     BadSegment}

RawSegmentLists ==
    {<<sg>> : sg \in RawSegments} \cup SeqsUpTo(CoreSegments, MaxSegs)

\* the value under "segments": a list, null, or a number other than 0
SegList(items) == [k |-> "list", items |-> items]
SegNull == [k |-> "null", items |-> <<>>]
SegNum == [k |-> "num", items |-> <<>>]

SegmentsValues == {SegList(l) : l \in RawSegmentLists} \cup {SegNull, SegNum}

\* bool(segments)
SegmentsTruthy(sv) ==
    CASE sv.k = "list" -> sv.items # <<>>
      [] sv.k = "num" -> TRUE
      [] OTHER -> FALSE

TextValues ==
    {JStr(<<>>), JStr(<<" ">>), JStr(<<" ", "\n">>), JStr(<<"h", "i">>),
     JStr(<<" ", "h">>), JNull, JNum(7)}

LanguageValues == {JStr(<<"f", "r">>), JStr(<<>>), JNull}

BodyKeys == {"text", "segments", "language"}

\* a JSON object as the response body
BodyDict(ks, tx, sv, lg) ==
    [isDict |-> TRUE, isNone |-> FALSE, truthy |-> ks # {}, keys |-> ks,
     text |-> IF "text" \in ks THEN tx ELSE JNull,
     segments |-> IF "segments" \in ks THEN sv ELSE SegNull,
     language |-> IF "language" \in ks THEN lg ELSE JNull]

\* a JSON body that is not an object: null, or a list or string (empty or not)
BodyOther(none, truthy) ==
    [isDict |-> FALSE, isNone |-> none, truthy |-> truthy, keys |-> {},
     text |-> JNull, segments |-> SegNull, language |-> JNull]

\* Python's None as the value WhisperClient.transcribe returns
NoneBody == BodyOther(TRUE, FALSE)

RawBodies ==
    {BodyDict(ks, tx, sv, lg) :
        ks \in SUBSET BodyKeys, tx \in TextValues,
        sv \in SegmentsValues, lg \in LanguageValues}
    \cup {NoneBody, BodyOther(FALSE, FALSE), BodyOther(FALSE, TRUE)}

\* the language argument of AudioProcessor(...): None, "" or "en"
Hints == {JNull, JStr(<<>>), JStr(<<"e", "n">>)}

-----------------------------------------------------------------------------
(* WhisperClient *)

\* what can happen to GET {base}/health
HealthOutcomes == {"unreachable", "ok_json", "ok_not_json", "status_500"}

\* the probe got a response
Answered(h) == h \in {"ok_json", "ok_not_json", "status_500"}

\* the status code of the health response
StatusOf(h) == IF h \in {"ok_json", "ok_not_json"} THEN 200 ELSE 500

\* mutant: the probe's failure is logged and construction goes on
WhisperClientInitSwallow(h) == [built |-> TRUE, exc |-> "none"]

\* WhisperClient.__init__: the probe; any exception inside it becomes ConnectionError
WhisperClientInit(h) ==
    LET probe ==
            IF h = "unreachable" THEN "RequestException"
            ELSE IF StatusOf(h) = 200
                 THEN (IF h = "ok_not_json" THEN "JSONDecodeError" ELSE "none")
                 ELSE "none"                      \* logs a warning only
    IN  IF probe # "none"
        THEN [built |-> FALSE, exc |-> "ConnectionError"]
        ELSE [built |-> TRUE, exc |-> "none"]

\* what can happen to one POST {base}/v1/audio/transcriptions
RequestOutcomes ==
    {"open_error", "timeout", "connection_error", "http_error", "bad_json", "ok"}

\* the multipart form fields sent beside the file
FormData(language) ==
    {"model", "response_format"} \cup (IF Truthy(language) THEN {"language"} ELSE {})

\* the body of the try block of WhisperClient.transcribe
ClientTry(env, body) ==
    CASE env = "open_error" -> [exc |-> "OSError", ret |-> NoneBody]
      [] env = "timeout" -> [exc |-> "Timeout", ret |-> NoneBody]
      [] env = "connection_error" -> [exc |-> "ConnectionError", ret |-> NoneBody]
      [] env = "http_error" -> [exc |-> "HTTPError", ret |-> NoneBody]
      [] env = "bad_json" -> [exc |-> "JSONDecodeError", ret |-> NoneBody]
      [] OTHER -> [exc |-> "none", ret |-> body]

\* requests.exceptions.Timeout and its subclasses
IsTimeout(e) == e = "Timeout"

\* requests.exceptions.RequestException and its subclasses
IsRequestException(e) ==
    e \in {"Timeout", "ConnectionError", "HTTPError", "JSONDecodeError"}

\* Exception and its subclasses
IsException(e) == e # "none"

\* mutant: the last clause, except Exception, is missing
ClientCatchesRequestsOnly(e) == IsTimeout(e) \/ IsRequestException(e)

\* the three except clauses of WhisperClient.transcribe, in order
ClientCatches(e) == IsTimeout(e) \/ IsRequestException(e) \/ IsException(e)

\* WhisperClient.transcribe(audio_path, language)
ClientTranscribe(env, body) ==
    LET t == ClientTry(env, body)
    IN  IF t.exc = "none" THEN t
        ELSE IF ClientCatches(t.exc) THEN [exc |-> "none", ret |-> NoneBody]
        ELSE t

-----------------------------------------------------------------------------
(* AudioProcessor.transcribe: the response normalizer *)

NoneTranscript == [isNone |-> TRUE, text |-> JNull, segments |-> <<>>, language |-> JNull]

AudioTranscript(text, segments, language) ==
    [isNone |-> FALSE, text |-> text, segments |-> segments, language |-> language]

\* mutant: a missing probability defaults to 0.0
WordInfoProbabilityZero(word) ==
    IF ~word.isDict
    THEN [exc |-> "AttributeError",
          val |-> [word |-> JNull, start |-> JNull, end |-> JNull, probability |-> JNull]]
    ELSE [exc |-> "none",
          val |-> [word |-> Get(word, "word", EmptyStr),
                   start |-> Get(word, "start", JNum(DefaultTime)),
                   end |-> Get(word, "end", JNum(DefaultTime)),
                   probability |-> Get(word, "probability", JNum(0))]]

\* word_info of one entry of segment["words"]
WordInfo(word) ==
    IF ~word.isDict
    THEN [exc |-> "AttributeError",
          val |-> [word |-> JNull, start |-> JNull, end |-> JNull, probability |-> JNull]]
    ELSE [exc |-> "none",
          val |-> [word |-> Get(word, "word", EmptyStr),
                   start |-> Get(word, "start", JNum(DefaultTime)),
                   end |-> Get(word, "end", JNum(DefaultTime)),
                   probability |-> Get(word, "probability", JNum(DefaultProbability))]]

\* the words appended to segment_info["words"]
WordInfos(segment) ==
    IF "words" \in segment.keys /\ segment.words # <<>>
    THEN [i \in 1..Len(segment.words) |-> WordInfo(segment.words[i])]
    ELSE <<>>

\* segment_info of one entry of segments
SegmentInfo(segment) ==
    IF ~segment.isDict
    THEN [exc |-> "AttributeError",
          val |-> [text |-> JNull, start |-> JNull, end |-> JNull, words |-> <<>>]]
    ELSE LET ws == WordInfos(segment)
         IN  [exc |-> IF \E i \in 1..Len(ws) : ws[i].exc # "none"
                      THEN "AttributeError" ELSE "none",
              val |-> [text |-> Get(segment, "text", EmptyStr),
                       start |-> Get(segment, "start", JNum(DefaultTime)),
                       end |-> Get(segment, "end", JNum(DefaultTime)),
                       words |-> [i \in 1..Len(ws) |-> ws[i].val]]]

\* the segment made up when the response has no segments
BaseSegment(text) ==
    [isDict |-> TRUE, keys |-> {"text", "start", "end", "words"},
     text |-> text, start |-> JNum(DefaultTime), end |-> JNum(DefaultTime),
     words |-> <<>>]

\* mutant: no base segment is made up
SegmentsOfNoBase(result, text) == Get(result, "segments", SegList(<<>>))

\* segments = result.get('segments', []), replaced by the base segment when falsy
SegmentsOf(result, text) ==
    LET sv == Get(result, "segments", SegList(<<>>))
    IN  IF ~SegmentsTruthy(sv) THEN SegList(<<BaseSegment(text)>>) ELSE sv

\* detected_language = result.get('language', self.language or 'unknown')
DetectedLanguage(result, selfLanguage) ==
    Get(result, "language", IF Truthy(selfLanguage) THEN selfLanguage ELSE Unknown)

\* the body of the try block of AudioProcessor.transcribe, after the client call
NormalizeTry(result, selfLanguage) ==
    IF ~result.truthy THEN [exc |-> "none", ret |-> NoneTranscript]
    ELSE IF ~result.isDict THEN [exc |-> "AttributeError", ret |-> NoneTranscript]
    ELSE LET text == Get(result, "text", EmptyStr)
         IN  IF ~Truthy(text) THEN [exc |-> "none", ret |-> NoneTranscript]
             ELSE IF ~IsStr(text) THEN [exc |-> "AttributeError", ret |-> NoneTranscript]
             ELSE IF Strip(text.s) = <<>> THEN [exc |-> "none", ret |-> NoneTranscript]
             ELSE LET sv == SegmentsOf(result, text)
                  IN  IF sv.k # "list" THEN [exc |-> "TypeError", ret |-> NoneTranscript]
                      ELSE LET infos == [i \in 1..Len(sv.items) |-> SegmentInfo(sv.items[i])]
                           IN  IF \E i \in 1..Len(infos) : infos[i].exc # "none"
                               THEN [exc |-> "AttributeError", ret |-> NoneTranscript]
                               ELSE [exc |-> "none",
                                     ret |-> AudioTranscript(
                                                text,
                                                [i \in 1..Len(infos) |-> infos[i].val],
                                                DetectedLanguage(result, selfLanguage))]

\* the whole try block: the client call, then the normalizer
ProcessorTry(clientOutcome, selfLanguage) ==
    IF clientOutcome.exc # "none"
    THEN [exc |-> clientOutcome.exc, ret |-> NoneTranscript]
    ELSE NormalizeTry(clientOutcome.ret, selfLanguage)

\* mutant: the try block of AudioProcessor.transcribe has no except clause
ProcessorCatchesNothing(e) == FALSE

\* the except clause of AudioProcessor.transcribe
ProcessorCatches(e) == IsException(e)

\* AudioProcessor.transcribe(audio_path), given the outcome of the client call
ProcessorTranscribe(clientOutcome, selfLanguage) ==
    LET t == ProcessorTry(clientOutcome, selfLanguage)
    IN  IF t.exc = "none" THEN t
        ELSE IF ProcessorCatches(t.exc) THEN [exc |-> "none", ret |-> NoneTranscript]
        ELSE t

-----------------------------------------------------------------------------
(* AudioProcessor.__init__ *)

\* the external decode tool: installed and working, not installed, or installed
\* and exiting with an error whatever it is asked
ToolStates == {"present", "missing", "failing"}

\* subprocess.run(['ffmpeg', '-version'], check=True)
VersionProbe(tool) ==
    CASE tool = "present" -> "none"
      [] tool = "missing" -> "FileNotFoundError"
      [] OTHER -> "CalledProcessError"

\* self.language = language if language else None
SelfLanguage(language) == IF Truthy(language) THEN language ELSE JNull

NoProcessor == [state |-> "none", exc |-> "none", language |-> JNull, has_ffmpeg |-> FALSE]

\* AudioProcessor.__init__(language, ...), given the client's construction
ProcessorInit(language, clientOutcome, tool) ==
    IF ~clientOutcome.built
    THEN [state |-> "raised", exc |-> clientOutcome.exc,
          language |-> JNull, has_ffmpeg |-> FALSE]
    ELSE [state |-> "built", exc |-> "none",
          language |-> SelfLanguage(language),
          has_ffmpeg |-> ~(VersionProbe(tool) \in {"CalledProcessError", "FileNotFoundError"})]

-----------------------------------------------------------------------------
(* AudioProcessor.extract_audio *)

\* the video files: with a decodable audio stream, without any audio stream,
\* corrupt, and with an audio stream in a codec the tool does not decode
VideoKinds == {"audio", "no_audio", "corrupt", "odd_codec"}

Dirs == {"out1", "out2"}

NoStreamMessage == "Output file does not contain any stream"

\* subprocess.run(["ffmpeg", "-i", video, ..., audio_path], check=True):
\* the exception raised and the decoded stderr, a sequence of lines
PrimaryOutcome(tool, kind) ==
    CASE tool = "missing" -> [exc |-> "FileNotFoundError", stderr |-> <<>>]
      [] tool = "failing" ->
            [exc |-> "CalledProcessError", stderr |-> <<"cannot open shared object file">>]
      [] kind = "audio" -> [exc |-> "none", stderr |-> <<>>]
      [] kind = "no_audio" ->
            [exc |-> "CalledProcessError", stderr |-> <<"ffmpeg version", NoStreamMessage>>]
      [] kind = "corrupt" ->
            [exc |-> "CalledProcessError",
             stderr |-> <<"ffmpeg version", "Invalid data found when processing input">>]
      [] OTHER ->
            [exc |-> "CalledProcessError",
             stderr |-> <<"ffmpeg version", "Decoder not found">>]

\* mutant: the message is looked for in the wording of older versions of the tool
HasOldNoStreamMessage(stderr) ==
    \E i \in 1..Len(stderr) : stderr[i] = "Output file #0 does not contain any stream"

\* "Output file does not contain any stream" in error_output
HasNoStreamMessage(stderr) == \E i \in 1..Len(stderr) : stderr[i] = NoStreamMessage

\* the exceptions the except clause around the tool's run catches
PrimaryCatches(e) == e = "CalledProcessError"

\* AudioSegment.from_file(...).set_channels(1).set_frame_rate(16000).export(...):
\* the exceptions it may end with
FallbackOutcomes(kind) ==
    IF kind \in {"audio", "odd_codec"} THEN {"none", "CouldntDecodeError"}
    ELSE {"CouldntDecodeError"}

\* mutant: the path does not depend on output_dir
AudioPathIgnoresDir(dir) == [isNone |-> FALSE, dir |-> "out1", name |-> "audio.wav"]

\* audio_path = output_dir / "audio.wav"
AudioPath(dir) == [isNone |-> FALSE, dir |-> dir, name |-> "audio.wav"]

NonePath == [isNone |-> TRUE, dir |-> "", name |-> ""]

NoFile == [job |-> 0, by |-> "nobody"]

IdleJob ==
    [pc |-> "idle", kind |-> "audio", dir |-> "out1", primary |-> "untried",
     stderr |-> <<>>, fallback |-> "untried", exc |-> "none", guidance |-> FALSE,
     ret |-> NonePath]

-----------------------------------------------------------------------------
(* The state machine *)

NoCall == [called |-> FALSE, env |-> "ok", body |-> NoneBody, form |-> {}]

Init ==
    /\ ffmpeg \in ToolStates
    /\ health = "unprobed"
    /\ client = [built |-> FALSE, exc |-> "none"]
    /\ proc = NoProcessor
    /\ wc = [call |-> NoCall, exc |-> "none", ret |-> NoneBody]
    /\ tr = [called |-> FALSE, exc |-> "none", ret |-> NoneTranscript]
    /\ jobs = [j \in 1..NumJobs |-> IdleJob]
    /\ files = [d \in Dirs |-> NoFile]

\* AudioProcessor(language, whisper_api_url, timeout)
Construct ==
    /\ proc.state = "none"
    /\ \E h \in HealthOutcomes, language \in Hints :
          /\ health' = h
          /\ client' = WhisperClientInit(h)
          /\ proc' = ProcessorInit(language, WhisperClientInit(h), ffmpeg)
    /\ UNCHANGED <<ffmpeg, wc, tr, jobs, files>>

\* processor.transcribe(audio_path). The call reads self.language and nothing
\* else and leaves no state behind, so one call per behaviour covers them all.
Transcribe ==
    /\ proc.state = "built"
    /\ ~tr.called
    /\ \E env \in RequestOutcomes :
       \E body \in (IF env = "ok" THEN RawBodies ELSE {NoneBody}) :
          LET c == ClientTranscribe(env, body)
              p == ProcessorTranscribe(c, proc.language)
          IN  /\ wc' = [call |-> [called |-> TRUE, env |-> env, body |-> body,
                                  form |-> FormData(proc.language)],
                        exc |-> c.exc, ret |-> c.ret]
              /\ tr' = [called |-> TRUE, exc |-> p.exc, ret |-> p.ret]
    /\ UNCHANGED <<ffmpeg, health, client, proc, jobs, files>>

\* processor.extract_audio(video_path, output_dir) is entered: the directory
\* is made and the tool is about to run
ExtractStart(j) ==
    /\ proc.state = "built"
    /\ jobs[j].pc = "idle"
    /\ \E kind \in VideoKinds, dir \in Dirs :
          jobs' = [jobs EXCEPT ![j] = [IdleJob EXCEPT !.pc = "primary",
                                                     !.kind = kind, !.dir = dir]]
    /\ UNCHANGED <<ffmpeg, health, client, proc, wc, tr, files>>

\* the tool has run: the call returns, raises, or goes on to the fallback
PrimaryRun(j) ==
    /\ jobs[j].pc = "primary"
    /\ LET job == jobs[j]
           o == PrimaryOutcome(ffmpeg, job.kind)
           tried == [job EXCEPT !.primary = o.exc, !.stderr = o.stderr]
       IN  IF o.exc = "none"
           THEN /\ files' = [files EXCEPT ![AudioPath(job.dir).dir] =
                                                [job |-> j, by |-> "ffmpeg"]]
                /\ jobs' = [jobs EXCEPT ![j] =
                              [tried EXCEPT !.pc = "returned", !.ret = AudioPath(job.dir)]]
           ELSE /\ files' = files
                /\ jobs' = [jobs EXCEPT ![j] =
                              IF ~PrimaryCatches(o.exc)
                              THEN [tried EXCEPT !.pc = "raised", !.exc = o.exc]
                              ELSE IF HasNoStreamMessage(o.stderr)
                              THEN [tried EXCEPT !.pc = "returned", !.ret = NonePath]
                              ELSE [tried EXCEPT !.pc = "fallback"]]
    /\ UNCHANGED <<ffmpeg, health, client, proc, wc, tr>>

\* the in-process decode routine has run: the call returns or raises
FallbackRun(j) ==
    /\ jobs[j].pc = "fallback"
    /\ \E e \in FallbackOutcomes(jobs[j].kind) :
          LET job == [jobs[j] EXCEPT !.fallback = e]
          IN  IF e = "none"
              THEN /\ files' = [files EXCEPT ![AudioPath(job.dir).dir] =
                                                   [job |-> j, by |-> "pydub"]]
                   /\ jobs' = [jobs EXCEPT ![j] =
                                 [job EXCEPT !.pc = "returned", !.ret = AudioPath(job.dir)]]
              ELSE /\ files' = files
                   /\ jobs' = [jobs EXCEPT ![j] =
                                 [job EXCEPT !.pc = "raised", !.exc = "RuntimeError",
                                             !.guidance = TRUE]]
    /\ UNCHANGED <<ffmpeg, health, client, proc, wc, tr>>

\* construction and transcription
Next == Construct \/ Transcribe

Spec == Init /\ [][Next]_vars

\* construction and extraction, with calls of extract_audio interleaved
NextExtract ==
    \/ Construct
    \/ \E j \in 1..NumJobs : ExtractStart(j)
    \/ \E j \in 1..NumJobs : PrimaryRun(j)
    \/ \E j \in 1..NumJobs : FallbackRun(j)

SpecExtract == Init /\ [][NextExtract]_vars

-----------------------------------------------------------------------------
(* Properties of construction and transcription (specification Spec) *)

\* the response body of the last transcribe call
RawResult == wc.call.body

\* the last transcribe call returned an AudioTranscript
Returned == tr.called /\ ~tr.ret.isNone

\* C1: AudioProcessor.transcribe never raises: whatever the request ends with
\* and whatever the response holds, the call returns (a transcript or None).
C1_TranscribeNeverRaises ==
    tr.called =>
        /\ tr.exc = "none"
        /\ wc.call.env # "ok" => tr.ret.isNone

\* a response that is a non-empty list: the normalizer fails on it inside the
\* call, and the call has returned None
C1_Witness ==
    /\ tr.called
    /\ wc.call.env = "ok"
    /\ ~RawResult.isDict /\ RawResult.truthy
    /\ tr.exc = "none" /\ tr.ret.isNone

\* C2 as stated: construction fails, and no instance is returned, whenever the
\* probe is unreachable or answers with a status other than 200.
C2_Original ==
    (health = "unreachable" \/ (Answered(health) /\ StatusOf(health) # 200)) =>
        ~client.built /\ proc.state # "built"

\* C2 amended: construction fails with ConnectionError, and no instance is
\* returned, whenever the probe is unreachable; when the probe answers with a
\* status other than 200 the client and the processor are constructed.
C2_ProbeDecidesConstruction ==
    /\ health = "unreachable" =>
          /\ ~client.built /\ client.exc = "ConnectionError"
          /\ proc.state = "raised" /\ proc.exc = "ConnectionError"
    /\ (Answered(health) /\ StatusOf(health) # 200) =>
          client.built /\ proc.state = "built"

\* the probe was unreachable and construction has raised
C2_Witness == health = "unreachable" /\ proc.state = "raised" /\ ~client.built

\* C6: WhisperClient.transcribe never raises: a timeout, a transport error, an
\* HTTP error status, a body that is not JSON and an audio file that cannot be
\* opened each yield None; a raw result is returned only when the request
\* succeeded and the body parsed, and it is that body.
C6_ClientNeverRaises ==
    wc.call.called =>
        /\ wc.exc = "none"
        /\ wc.call.env # "ok" => wc.ret.isNone
        /\ ~wc.ret.isNone => wc.call.env = "ok" /\ wc.ret = RawResult

\* the audio file could not be opened, and the client call has returned None
C6_Witness ==
    wc.call.called /\ wc.call.env = "open_error" /\ wc.exc = "none" /\ wc.ret.isNone

\* C7 as stated: the language of a returned transcript is the one the service
\* reported, else the hint, else "unknown", and is always a string.
C7_Original ==
    Returned =>
        /\ ("language" \in RawResult.keys /\ IsStr(RawResult.language)) =>
              tr.ret.language = RawResult.language
        /\ ("language" \notin RawResult.keys /\ Truthy(proc.language)) =>
              tr.ret.language = proc.language
        /\ ("language" \notin RawResult.keys /\ ~Truthy(proc.language)) =>
              tr.ret.language = JStr(<<"u", "n", "k", "n", "o", "w", "n">>)
        /\ IsStr(tr.ret.language)

\* some character of chars is not whitespace
HasNonSpace(chars) == \E i \in 1..Len(chars) : chars[i] \notin {" ", "\n"}

\* C8: a raw result whose text is missing, "" or all whitespace yields None;
\* every transcript returned has the raw text, unchanged, and that text is a
\* string with a character that is not whitespace.
C8_TextNeverBlank ==
    tr.called =>
        /\ (/\ wc.call.env = "ok" /\ RawResult.isDict
            /\ \/ "text" \notin RawResult.keys
               \/ IsStr(RawResult.text) /\ ~HasNonSpace(RawResult.text.s)) =>
              tr.ret.isNone
        /\ ~tr.ret.isNone =>
              /\ "text" \in RawResult.keys /\ tr.ret.text = RawResult.text
              /\ IsStr(tr.ret.text) /\ HasNonSpace(tr.ret.text.s)

\* a response whose text is whitespace only, and the call has returned None
C8_Witness ==
    /\ tr.called /\ wc.call.env = "ok" /\ RawResult.isDict
    /\ "text" \in RawResult.keys /\ RawResult.text = JStr(<<" ", "\n">>)
    /\ "segments" \in RawResult.keys /\ RawResult.segments.items # <<>>
    /\ tr.ret.isNone

\* the raw result has no segments: the key is absent, or its value is null or
\* an empty list
NoRawSegments ==
    \/ "segments" \notin RawResult.keys
    \/ RawResult.segments.k = "null"
    \/ RawResult.segments.k = "list" /\ RawResult.segments.items = <<>>

\* the value the raw object holds under key, or default when it has no such key
Supplied(raw, key, default) == IF key \in raw.keys THEN raw[key] ELSE default

\* C9: every transcript returned has at least one segment: the single segment
\* {text: the full text, start: 0.0, end: 0.0, words: []} when the raw result
\* has no segments, and otherwise one segment per raw segment, in their order.
C9_SegmentsNeverEmpty ==
    Returned =>
        /\ tr.ret.segments # <<>>
        /\ IF NoRawSegments
           THEN tr.ret.segments =
                    <<[text |-> RawResult.text, start |-> JNum(0), end |-> JNum(0),
                       words |-> <<>>]>>
           ELSE /\ Len(tr.ret.segments) = Len(RawResult.segments.items)
                /\ \A i \in 1..Len(tr.ret.segments) :
                      LET raw == RawResult.segments.items[i]
                          seg == tr.ret.segments[i]
                      IN  /\ seg.text = Supplied(raw, "text", JStr(<<>>))
                          /\ seg.start = Supplied(raw, "start", JNum(0))
                          /\ seg.end = Supplied(raw, "end", JNum(0))

\* a transcript was returned for a raw result without the key segments
C9_Witness ==
    /\ Returned /\ "segments" \notin RawResult.keys
    /\ Len(tr.ret.segments) = 1 /\ tr.ret.segments[1].text = tr.ret.text

\* the raw segments a returned transcript was made from
SourceSegments ==
    IF NoRawSegments
    THEN <<[keys |-> {"text", "start", "end", "words"}, text |-> RawResult.text,
            start |-> JNum(0), end |-> JNum(0), words |-> <<>>]>>
    ELSE RawResult.segments.items

\* C10: in every transcript returned, each segment has exactly the fields
\* text/start/end/words and each word exactly word/start/end/probability; a
\* field the service supplied is copied, an omitted one is "" (text, word), 0.0
\* (start, end), 1.0 (probability) or the empty sequence (words).
C10_FieldsAndDefaults ==
    Returned =>
        /\ Len(tr.ret.segments) = Len(SourceSegments)
        /\ \A i \in 1..Len(tr.ret.segments) :
              LET raw == SourceSegments[i]
                  seg == tr.ret.segments[i]
                  rawWords == Supplied(raw, "words", <<>>)
              IN  /\ DOMAIN seg = {"text", "start", "end", "words"}
                  /\ seg.text = Supplied(raw, "text", JStr(<<>>))
                  /\ seg.start = Supplied(raw, "start", JNum(0))
                  /\ seg.end = Supplied(raw, "end", JNum(0))
                  /\ Len(seg.words) = Len(rawWords)
                  /\ \A k \in 1..Len(seg.words) :
                        /\ DOMAIN seg.words[k] = {"word", "start", "end", "probability"}
                        /\ seg.words[k].word = Supplied(rawWords[k], "word", JStr(<<>>))
                        /\ seg.words[k].start = Supplied(rawWords[k], "start", JNum(0))
                        /\ seg.words[k].end = Supplied(rawWords[k], "end", JNum(0))
                        /\ seg.words[k].probability =
                              Supplied(rawWords[k], "probability", JNum(1))

\* a transcript was returned with a word whose raw object has a word and
\* timestamps but no probability
C10_Witness ==
    /\ Returned /\ ~NoRawSegments
    /\ \E i \in 1..Len(tr.ret.segments) :
          LET raw == RawResult.segments.items[i]
          IN  /\ "words" \in raw.keys /\ raw.words # <<>>
              /\ raw.words[1].keys = {"word", "start", "end"}
              /\ tr.ret.segments[i].words[1].probability = JNum(1)
              /\ tr.ret.segments[i].words[1].start = raw.words[1].start

-----------------------------------------------------------------------------
(* Properties of extraction (specification SpecExtract) *)

\* the call of job j has ended, by returning or by raising
Ended(j) == jobs[j].pc \in {"returned", "raised"}

\* the tool was run for job j and failed
PrimaryFailed(j) == jobs[j].primary \notin {"untried", "none"}

\* the tool's diagnostic output for job j says that there is no audio stream
SaysNoStream(j) ==
    \E i \in 1..Len(jobs[j].stderr) :
        jobs[j].stderr[i] = "Output file does not contain any stream"

\* C3 as stated: when the tool fails for any reason other than the source
\* having no audio stream, the tool being missing included, the fallback is
\* invoked before the call ends, and when it succeeds the call returns
\* outputDir/audio.wav.
C3_Original ==
    \A j \in 1..NumJobs :
        (Ended(j) /\ PrimaryFailed(j) /\ ~SaysNoStream(j)) =>
            /\ jobs[j].fallback # "untried"
            /\ jobs[j].fallback = "none" =>
                  jobs[j].pc = "returned" /\ jobs[j].ret = AudioPath(jobs[j].dir)

\* C4 as stated: the call raises only after both the tool and the fallback were
\* tried and failed, and then raises the error that carries the install guidance.
C4_Original ==
    \A j \in 1..NumJobs :
        /\ jobs[j].pc = "raised" =>
              /\ PrimaryFailed(j)
              /\ jobs[j].fallback \notin {"untried", "none"}
              /\ jobs[j].exc = "RuntimeError" /\ jobs[j].guidance
        /\ (Ended(j) /\ PrimaryFailed(j) /\ jobs[j].fallback \notin {"untried", "none"}) =>
              jobs[j].pc = "raised" /\ jobs[j].exc = "RuntimeError" /\ jobs[j].guidance

C11_Original ==
    /\ health = "ok_json" =>
          proc.state = "built" /\ proc.has_ffmpeg = (ffmpeg = "present")
    /\ \A j \in 1..NumJobs :
          (Ended(j) /\ ffmpeg = "missing" /\ jobs[j].kind = "audio") =>
              /\ jobs[j].fallback # "untried"
              /\ jobs[j].pc = "raised" => jobs[j].fallback # "none"

\* job j has returned a path
ReturnedPath(j) == jobs[j].pc = "returned" /\ ~jobs[j].ret.isNone

\* job k was called with the output directory of job j
SharesDir(j, k) == k # j /\ jobs[k].pc # "idle" /\ jobs[k].dir = jobs[j].dir

\* C12: a call writes only outputDir/audio.wav, its own output directory's
\* file: a file is written only by a call that was given its directory, the
\* path a call returns is that file, and when no other call was given the same
\* directory the file at the returned path holds that call's own audio. (Two
\* calls sharing a directory write the same file: C12_Witness.)
C12_DistinctDirsNeverCollide ==
    /\ \A d \in Dirs :
          files[d] # NoFile =>
              jobs[files[d].job].pc # "idle" /\ jobs[files[d].job].dir = d
    /\ \A j \in 1..NumJobs :
          ReturnedPath(j) =>
              /\ jobs[j].ret.dir = jobs[j].dir /\ jobs[j].ret.name = "audio.wav"
              /\ files[jobs[j].ret.dir] # NoFile
              /\ (\A k \in 1..NumJobs : ~SharesDir(j, k)) =>
                    files[jobs[j].ret.dir].job = j

\* two calls sharing an output directory have both returned its audio.wav,
\* and the file holds the audio of one of them only
C12_Witness ==
    \E j, k \in 1..NumJobs :
        /\ SharesDir(j, k)
        /\ ReturnedPath(j) /\ ReturnedPath(k)
        /\ jobs[j].ret = jobs[k].ret
        /\ files[jobs[j].ret.dir].job = k

====
